---- MODULE Spec2Model ----
(***************************************************************************)
(* python-lsp-ruff: the bridge between the language-server host and the    *)
(* ruff subprocess.  The module models pylsp_ruff/plugin.py: settings      *)
(* resolution (load_settings), the process invoker (run_ruff), the         *)
(* diagnostic translator (create_diagnostic) and the three host hooks      *)
(* (pylsp_lint, pylsp_format_document, pylsp_code_actions).                *)
(*                                                                         *)
(* Representation.  A Python Optional[T] is None == <<>> or Some(v) ==     *)
(* <<v>>.  Strings the code inspects character by character (rule codes,   *)
(* document lines) are sequences of one-character strings; opaque strings  *)
(* (messages, paths) are TLA+ strings.  A text is a sequence of lines.     *)
(***************************************************************************)
EXTENDS Integers, Sequences, FiniteSets, TLC

VARIABLES
    config,      \* host configuration of the plugin: dict camelCase key -> value
    files,       \* project files on disk, per ancestor directory of the document
    document,    \* the document of the workspace: [path, lines]
    request,     \* the call in progress and its inputs (op = "idle": none)
    response     \* what the call returned (op = "idle": nothing pending)

vars == <<config, files, document, request, response>>

(***************************************************************************)
(* Python values                                                           *)
(***************************************************************************)
None == <<>>
Some(v) == <<v>>
IsNone(o) == Len(o) = 0
Get(o) == o[1]

\* a test for "is not None" in place of truthiness
Truthy_non_null(o) == Len(o) = 1

\* Python truthiness of an Optional[str] / Optional[list] / Optional[dict-as-list]
Truthy(o) == Len(o) = 1 /\ Len(o[1]) > 0

\* Python truthiness of an Optional[int]
TruthyInt(o) == Len(o) = 1 /\ o[1] # 0

RECURSIVE Str(_)
\* the TLA+ string spelled by a sequence of characters
Str(cs) == IF cs = <<>> THEN "" ELSE cs[1] \o Str(Tail(cs))

(***************************************************************************)
(* settings.py                                                             *)
(***************************************************************************)
Fields == {"enabled", "executable", "config", "line_length", "exclude",
           "select", "extend_select", "ignore", "extend_ignore",
           "per_file_ignores", "format", "unsafe_fixes", "severities"}

\* PluginSettings(): the dataclass defaults
PluginSettings ==
    [enabled |-> TRUE,
     executable |-> None,
     config |-> None,
     line_length |-> None,
     exclude |-> None,
     select |-> None,
     extend_select |-> None,
     ignore |-> None,
     extend_ignore |-> None,
     per_file_ignores |-> None,
     format |-> None,
     unsafe_fixes |-> FALSE,
     severities |-> None]

\* to_camel_case on the field names of PluginSettings
to_camel_case ==
    [enabled |-> "enabled",
     executable |-> "executable",
     config |-> "config",
     line_length |-> "lineLength",
     exclude |-> "exclude",
     select |-> "select",
     extend_select |-> "extendSelect",
     ignore |-> "ignore",
     extend_ignore |-> "extendIgnore",
     per_file_ignores |-> "perFileIgnores",
     format |-> "format",
     unsafe_fixes |-> "unsafeFixes",
     severities |-> "severities"]

\* converter.unstructure(PluginSettings): every field under its camelCase key
unstructure_settings(s) ==
    [k \in {to_camel_case[f] : f \in Fields} |->
        s[CHOOSE f \in Fields : to_camel_case[f] = k]]

\* converter.structure(dict, PluginSettings): a key the dict holds is taken
\* under the field's camelCase name, a missing key takes the dataclass
\* default, and a key that names no field is dropped.
structure_settings(d) ==
    [f \in Fields |->
        IF to_camel_case[f] \in DOMAIN d THEN d[to_camel_case[f]]
        ELSE PluginSettings[f]]

(***************************************************************************)
(* The host side: configuration and project files                         *)
(***************************************************************************)
\* workspace._config.plugin_settings("ruff") right after pylsp_settings():
\* the unstructured defaults of PluginSettings
DefaultConfig == unstructure_settings(PluginSettings)

\* keys a user can set in the host configuration, with the values drawn for
\* each; formatEnabled is a key of the host configuration that PluginSettings
\* does not declare
ConfigValues ==
    [enabled |-> {TRUE, FALSE},
     executable |-> {None, Some("/tmp/ruff")},
     config |-> {None, Some("/tmp/pyproject.toml")},
     lineLength |-> {None, Some(88)},
     exclude |-> {None, Some(<<"build">>)},
     select |-> {None, Some(<<"F">>)},
     extendSelect |-> {None, Some(<<"D", "F">>)},
     ignore |-> {None, Some(<<"E501">>)},
     extendIgnore |-> {None, Some(<<"E">>)},
     perFileIgnores |-> {None, Some(<< << <<"mod.py">>, <<"F401">> >> >>)},
     format |-> {None, Some(<<"I001">>)},
     unsafeFixes |-> {TRUE, FALSE},
     severities |-> {None, Some(<< <<"E402", "E">> >>)},
     formatEnabled |-> {TRUE, FALSE}]

ConfigKeys == DOMAIN ConfigValues

\* keys of the host configuration that differ from the plugin's defaults
Overrides(cfg) ==
    {k \in DOMAIN cfg : k \notin DOMAIN DefaultConfig \/ cfg[k] # DefaultConfig[k]}

\* how many keys the user has overridden at once
MaxOverrides == 2

\* the directories searched for project files, the document's own first
AncestorDirs == <<"pkg", "root">>

\* what a pyproject.toml holds: nothing parseable, no [tool.ruff], [tool.ruff]
PyprojectKinds == {"absent", "malformed", "no_table", "ruff_table"}

NoFiles == [d \in {AncestorDirs[i] : i \in 1..Len(AncestorDirs)} |->
               [pyproject |-> "absent", ruff_toml |-> FALSE]]

HasPyproject(dir) == dir.pyproject # "absent"
HasRuffToml(dir) == dir.ruff_toml

\* the directory holds a file with one of the names
Present(dir, names) ==
    \/ "pyproject.toml" \in names /\ HasPyproject(dir)
    \/ names \cap {"ruff.toml", ".ruff.toml"} # {} /\ HasRuffToml(dir)

\* pylsp's find_parents: the files of the nearest ancestor directory that
\* holds one of the names, none when no ancestor does
find_parents(fs, names) ==
    LET hits == {i \in 1..Len(AncestorDirs) : Present(fs[AncestorDirs[i]], names)}
    IN  IF hits = {} THEN <<>>
        ELSE <<AncestorDirs[CHOOSE i \in hits : \A j \in hits : i <= j]>>

\* a resolver that delegates as soon as any pyproject.toml is found
config_in_pyproject_any_file(fs) == find_parents(fs, {"pyproject.toml"}) # <<>>

\* the try block of load_settings: tomllib.load raises TOMLDecodeError on a
\* malformed file, which is caught and leaves config_in_pyproject False
config_in_pyproject(fs) ==
    LET pyproject_file == find_parents(fs, {"pyproject.toml"})
    IN  IF pyproject_file = <<>> THEN FALSE
        ELSE LET toml == fs[pyproject_file[1]].pyproject
             IN  IF toml = "malformed" THEN FALSE
                 ELSE toml = "ruff_table"

\* a resolver that hands the host's rule selection through when delegating
load_settings_keeps_rules(cfg, fs) == structure_settings(cfg)

\* settings resolved once, before any change, and kept
load_settings_resolved_once(cfg, fs) ==
    structure_settings(unstructure_settings(PluginSettings))

\* load_settings(workspace, document_path)
load_settings(cfg, fs) ==
    LET plugin_settings == structure_settings(cfg)
        ruff_toml == find_parents(fs, {"ruff.toml", ".ruff.toml"})
    IN  IF config_in_pyproject(fs) \/ ruff_toml # <<>>
        THEN [PluginSettings EXCEPT
                 !.enabled = plugin_settings.enabled,
                 !.executable = plugin_settings.executable,
                 !.unsafe_fixes = plugin_settings.unsafe_fixes,
                 !.extend_ignore = plugin_settings.extend_ignore,
                 !.extend_select = plugin_settings.extend_select,
                 !.format = plugin_settings.format,
                 !.severities = plugin_settings.severities]
        ELSE plugin_settings

(***************************************************************************)
(* ruff.py: the finding model                                              *)
(***************************************************************************)
Location(row, column) == [row |-> row, column |-> column]

Edit(content, location, end_location) ==
    [content |-> content, location |-> location, end_location |-> end_location]

Fix(edits, message, applicability) ==
    [edits |-> edits, message |-> message, applicability |-> applicability]

Check(code, message, location, end_location, fix) ==
    [code |-> code, message |-> message, filename |-> "mod.py",
     location |-> location, end_location |-> end_location, fix |-> fix]

(***************************************************************************)
(* plugin.py: the diagnostic translator                                    *)
(***************************************************************************)
DIAGNOSTIC_SOURCE == "ruff"

UNNECESSITY_CODES ==
    {<<"F", "4", "0", "1">>, <<"F", "5", "0", "4">>, <<"F", "5", "2", "2">>,
     <<"F", "5", "2", "3">>, <<"F", "8", "4", "1">>}

\* a table whose lookup falls back to Warning instead of the given default
DIAGNOSTIC_SEVERITIES_warning_fallback(letter, default) ==
    CASE letter = "E" -> "Error"
      [] letter = "W" -> "Warning"
      [] letter = "I" -> "Information"
      [] letter = "H" -> "Hint"
      [] OTHER -> "Warning"

\* DIAGNOSTIC_SEVERITIES.get(letter, default)
DIAGNOSTIC_SEVERITIES(letter, default) ==
    CASE letter = "E" -> "Error"
      [] letter = "W" -> "Warning"
      [] letter = "I" -> "Information"
      [] letter = "H" -> "Hint"
      [] OTHER -> default

\* dict.get(key, None) on a dict held as a list of <<key, value>> pairs
DictGet(d, key) ==
    LET hits == {i \in 1..Len(d) : d[i][1] = key}
    IN  IF hits = {} THEN None ELSE Some(d[CHOOSE i \in hits : TRUE][2])

Position(line, character) == [line |-> line, character |-> character]
Range(start, end) == [start |-> start, end |-> end]
TextEdit(range, new_text) == [range |-> range, new_text |-> new_text]

\* a tag rule that marks every F code as unnecessary
unnecessary_every_F(code) == code[1] = "F"

\* "if check.code in UNNECESSITY_CODES"
unnecessary(code) == code \in UNNECESSITY_CODES

\* a create_diagnostic that leaves the tool's one-based column as it is
create_diagnostic_range_raw_column(check) ==
    Range(Position(check.location.row - 1, check.location.column),
          Position(check.end_location.row - 1, check.end_location.column))

\* the range of create_diagnostic: one-based tool coordinates to zero-based
create_diagnostic_range(check) ==
    Range(Position(check.location.row - 1, check.location.column - 1),
          Position(check.end_location.row - 1, check.end_location.column - 1))

\* create_diagnostic(check, settings)
create_diagnostic(check, settings) ==
    LET default == IF Str(check.code) = "E999" \/ check.code[1] = "F"
                   THEN "Error" ELSE "Warning"
        custom_sev == IF IsNone(settings.severities) THEN None
                      ELSE DictGet(Get(settings.severities), Str(check.code))
        severity == IF IsNone(custom_sev) THEN default
                    ELSE DIAGNOSTIC_SEVERITIES(Get(custom_sev), default)
        tags == IF unnecessary(check.code) THEN <<"Unnecessary">>
                ELSE <<>>
    IN  [source |-> DIAGNOSTIC_SOURCE,
         code |-> check.code,
         range |-> create_diagnostic_range(check),
         message |-> check.message,
         severity |-> severity,
         tags |-> tags,
         data |-> check.fix]

(***************************************************************************)
(* The converter: diagnostics on the wire.  converter.unstructure turns    *)
(* the dataclasses of ruff.py into dicts keyed by field name, and          *)
(* converter.structure(data, RuffFix) reads the dict back by key.  A dict  *)
(* is a list of <<key, value>> pairs.                                      *)
(***************************************************************************)
unstructure_location(location) ==
    <<<<"row", location.row>>, <<"column", location.column>>>>

unstructure_edit(edit) ==
    <<<<"content", edit.content>>,
      <<"location", unstructure_location(edit.location)>>,
      <<"end_location", unstructure_location(edit.end_location)>>>>

unstructure_fix(fix) ==
    <<<<"edits", [i \in 1..Len(fix.edits) |-> unstructure_edit(fix.edits[i])]>>,
      <<"message", fix.message>>,
      <<"applicability", fix.applicability>>>>

structure_location(d) ==
    Location(Get(DictGet(d, "row")), Get(DictGet(d, "column")))

structure_edit(d) ==
    Edit(Get(DictGet(d, "content")),
         structure_location(Get(DictGet(d, "location"))),
         structure_location(Get(DictGet(d, "end_location"))))

\* converter.structure(diagnostic.data, RuffFix)
structure_fix(d) ==
    LET edits == Get(DictGet(d, "edits"))
    IN  Fix([i \in 1..Len(edits) |-> structure_edit(edits[i])],
            Get(DictGet(d, "message")),
            Get(DictGet(d, "applicability")))

\* a lint hook that publishes its diagnostics without the payload
unstructure_diagnostic_without_data(diagnostic) ==
    [diagnostic EXCEPT !.data = None]

\* converter.unstructure of one diagnostic of pylsp_lint: the fix, when there
\* is one, goes out as a dict under "data"
unstructure_diagnostic(diagnostic) ==
    [diagnostic EXCEPT !.data = IF IsNone(diagnostic.data) THEN None
                                 ELSE Some(unstructure_fix(Get(diagnostic.data)))]

\* the diagnostics of a code-action context as the loop of pylsp_code_actions
\* reads them: "if diagnostic.data" is the truth value of the dict, and the
\* fix is converter.structure(diagnostic.data, RuffFix)
structure_diagnostic(wire) ==
    [wire EXCEPT !.data = IF IsNone(wire.data) \/ Get(wire.data) = <<>> THEN None
                           ELSE Some(structure_fix(Get(wire.data)))]

(***************************************************************************)
(* plugin.py: code actions                                                 *)
(***************************************************************************)
\* a create_text_edits that keeps the tool's column undecremented
create_text_edit_raw_column(edit) ==
    TextEdit(Range(Position(edit.location.row - 1, edit.location.column),
                   Position(edit.end_location.row - 1, edit.end_location.column)),
             edit.content)

\* the body of the loop of create_text_edits
create_text_edit(edit) ==
    TextEdit(Range(Position(edit.location.row - 1, edit.location.column - 1),
                   Position(edit.end_location.row - 1,
                            edit.end_location.column - 1)),
             edit.content)

\* create_text_edits(fix)
create_text_edits(fix) ==
    [i \in 1..Len(fix.edits) |-> create_text_edit(fix.edits[i])]

CodeAction(title, kind, diagnostics, edits) ==
    [title |-> title, kind |-> kind, diagnostics |-> diagnostics,
     edit |-> edits]

\* create_fix_code_action(document, diagnostic, fix)
create_fix_code_action(diagnostic, fix) ==
    CodeAction("Ruff (" \o Str(diagnostic.code) \o "): " \o fix.message,
               "quickfix", <<diagnostic>>, create_text_edits(fix))

\* create_organize_imports_code_action(document, diagnostic, fix)
create_organize_imports_code_action(diagnostic, fix) ==
    CodeAction("Ruff: " \o fix.message,
               "source.organizeImports", <<diagnostic>>, create_text_edits(fix))

\* create_fix_all_code_action(document, settings), new_text being what
\* run_ruff_fix returned
create_fix_all_code_action(doc, new_text) ==
    CodeAction("Ruff: Fix All", "source.fixAll", <<>>,
               <<TextEdit(Range(Position(0, 0), Position(Len(doc.lines), 0)),
                          new_text)>>)

(***************************************************************************)
(* plugin.py: NOQA_REGEX and the disable action                            *)
(***************************************************************************)
Chars(str) ==
    CASE str = "# " -> <<"#", " ">>
      [] str = "noqa" -> <<"n", "o", "q", "a">>
      [] str = "ruff: " -> <<"r", "u", "f", "f", ":", " ">>
      [] str = "flake8: " -> <<"f", "l", "a", "k", "e", "8", ":", " ">>
      [] str = "," -> <<",">>
      [] str = ": " -> <<":", " ">>
      [] str = "  # noqa: " -> <<" ", " ", "#", " ", "n", "o", "q", "a", ":", " ">>

UpperCase == {"A", "B", "C", "D", "E", "F", "G", "H", "I", "J", "K", "L", "M",
              "N", "O", "P", "Q", "R", "S", "T", "U", "V", "W", "X", "Y", "Z"}
Digits == {"0", "1", "2", "3", "4", "5", "6", "7", "8", "9"}
WhiteSpace == {" ", "\t"}

\* case folding of the letters the (?i: ...) group of NOQA_REGEX names
Lower(c) ==
    CASE c = "N" -> "n" [] c = "O" -> "o" [] c = "Q" -> "q" [] c = "A" -> "a"
      [] c = "R" -> "r" [] c = "U" -> "u" [] c = "F" -> "f" [] c = "L" -> "l"
      [] c = "K" -> "k" [] c = "E" -> "e" [] OTHER -> c

\* the literal lit matches line at index i, ignoring case
MatchCI(line, i, lit) ==
    /\ i + Len(lit) - 1 <= Len(line)
    /\ \A k \in 1..Len(lit) : Lower(line[i + k - 1]) = lit[k]

\* (?i:# (?:(?:ruff|flake8): )?(?P<noqa>noqa)) tried at index i: the index
\* after the match, 0 when it does not match there
NoqaEnd(line, i) ==
    IF ~MatchCI(line, i, Chars("# ")) THEN 0
    ELSE IF MatchCI(line, i + 2, Chars("ruff: ") \o Chars("noqa")) THEN i + 12
    ELSE IF MatchCI(line, i + 2, Chars("flake8: ") \o Chars("noqa")) THEN i + 14
    ELSE IF MatchCI(line, i + 2, Chars("noqa")) THEN i + 6
    ELSE 0

\* how many characters of class cls line holds from index i on
RECURSIVE Run(_, _, _)
Run(line, i, cls) ==
    IF i <= Len(line) /\ line[i] \in cls THEN 1 + Run(line, i + 1, cls) ELSE 0

\* a codes part that allows no blank after the colon
CodesAt_no_blank(line, k) ==
    /\ k <= Len(line) /\ line[k] = ":"
    /\ Run(line, k + 1, UpperCase) >= 1
    /\ Run(line, k + 1 + Run(line, k + 1, UpperCase), Digits) >= 1

\* (?::\s?(?P<codes>([A-Z]+[0-9]+(?:[,\s]+)?)+))? tried at index k: whether
\* the codes group takes part in the match
CodesAt(line, k) ==
    /\ k <= Len(line) /\ line[k] = ":"
    /\ LET m == IF k + 1 <= Len(line) /\ line[k + 1] \in WhiteSpace
                THEN k + 2 ELSE k + 1
           letters == Run(line, m, UpperCase)
       IN  letters >= 1 /\ Run(line, m + letters, Digits) >= 1

RECURSIVE CodesEnd(_, _)
\* ([A-Z]+[0-9]+(?:[,\s]+)?)+ from index m, where one code starts: the index
\* after the group
CodesEnd(line, m) ==
    LET letters == Run(line, m, UpperCase)
        digits == Run(line, m + letters, Digits)
        after == m + letters + digits
        next == after + Run(line, after, WhiteSpace \cup {","})
    IN  IF letters = 0 \/ digits = 0 THEN m
        ELSE IF CodesEnd(line, next) > next THEN CodesEnd(line, next)
        ELSE next

\* NOQA_REGEX.search(line): the leftmost match
NOQA_REGEX_search(line) ==
    LET starts == {i \in 1..Len(line) : NoqaEnd(line, i) > 0}
    IN  IF starts = {} THEN [has_noqa |-> FALSE, has_codes |-> FALSE]
        ELSE LET i == CHOOSE i \in starts : \A j \in starts : i <= j
             IN  [has_noqa |-> TRUE, has_codes |-> CodesAt(line, NoqaEnd(line, i))]

\* match.group("codes") of the leftmost match: its first index and the index
\* after it, <<0, 0>> when the group took no part
NOQA_REGEX_codes(line) ==
    LET starts == {i \in 1..Len(line) : NoqaEnd(line, i) > 0}
    IN  IF starts = {} THEN <<0, 0>>
        ELSE LET i == CHOOSE i \in starts : \A j \in starts : i <= j
                 k == NoqaEnd(line, i)
                 m == IF k + 1 <= Len(line) /\ line[k + 1] \in WhiteSpace
                      THEN k + 2 ELSE k + 1
             IN  IF CodesAt(line, k) THEN <<m, CodesEnd(line, m)>> ELSE <<0, 0>>

\* document.lines[diagnostic.range.start.line] raises IndexError
disable_raises(doc, diagnostic) ==
    diagnostic.range.start.line + 1 > Len(doc.lines)

\* create_disable_code_action(document, diagnostic)
create_disable_code_action(doc, diagnostic) ==
    LET line == doc.lines[diagnostic.range.start.line + 1]
        match == NOQA_REGEX_search(line)
        new_line == IF match.has_noqa /\ match.has_codes
                        THEN line \o Chars(",") \o diagnostic.code
                    ELSE IF match.has_noqa
                        THEN line \o Chars(": ") \o diagnostic.code
                    ELSE line \o Chars("  # noqa: ") \o diagnostic.code
        range == Range(Position(diagnostic.range.start.line, 0),
                       Position(diagnostic.range.start.line, Len(line)))
    IN  CodeAction("Ruff (" \o Str(diagnostic.code) \o "): Disable for this line",
                   "quickfix", <<diagnostic>>, <<TextEdit(range, <<new_line>>)>>)

(***************************************************************************)
(* plugin.py: the process invoker                                          *)
(***************************************************************************)
RECURSIVE Join(_, _)
\* sep.join(list)
Join(list, sep) ==
    IF list = <<>> THEN ""
    ELSE IF Len(list) = 1 THEN list[1]
    ELSE list[1] \o sep \o Join(Tail(list), sep)

\* a path string that is never empty
PathStr_never_empty(path) == "/" \o Join(path, "/")

\* the document path as the string handed to the tool ("" for an unsaved
\* document)
PathStr(path) == IF path = <<>> THEN "" ELSE "/" \o Join(path, "/")

\* PurePath(document_path).match(pattern) for a relative pattern without
\* wildcards: the pattern's components end the path
PurePathMatch(path, pattern) ==
    /\ Len(pattern) >= 1
    /\ Len(pattern) <= Len(path)
    /\ SubSeq(path, Len(path) - Len(pattern) + 1, Len(path)) = pattern

RECURSIVE per_file_ignores_args(_, _)
\* the loop of build_arguments over settings.per_file_ignores.items()
per_file_ignores_args(path, items) ==
    IF items = <<>> THEN <<>>
    ELSE (IF PurePathMatch(path, items[1][1])
          THEN <<"--ignore=" \o Join(items[1][2], ",")>> ELSE <<>>)
         \o per_file_ignores_args(path, Tail(items))

\* build_arguments(document_path, settings, fix, extra_arguments)
build_arguments(path, settings, fix, extra_arguments) ==
    <<"--quiet", "--exit-zero", "--output-format=json">>
    \o (IF fix THEN <<"--fix">> ELSE <<"--no-fix">>)
    \o <<"--force-exclude">>
    \o (IF PathStr(path) # "" THEN <<"--stdin-filename=" \o PathStr(path)>>
        ELSE <<>>)
    \o (IF Truthy(settings.config)
        THEN <<"--config=" \o Get(settings.config)>> ELSE <<>>)
    \o (IF TruthyInt(settings.line_length)
        THEN <<"--line-length=" \o ToString(Get(settings.line_length))>>
        ELSE <<>>)
    \o (IF settings.unsafe_fixes THEN <<"--unsafe-fixes">> ELSE <<>>)
    \o (IF Truthy(settings.exclude)
        THEN <<"--exclude=" \o Join(Get(settings.exclude), ",")>> ELSE <<>>)
    \o (IF Truthy(settings.select)
        THEN <<"--select=" \o Join(Get(settings.select), ",")>> ELSE <<>>)
    \o (IF Truthy(settings.extend_select)
        THEN <<"--extend-select=" \o Join(Get(settings.extend_select), ",")>>
        ELSE <<>>)
    \o (IF Truthy(settings.ignore)
        THEN <<"--ignore=" \o Join(Get(settings.ignore), ",")>> ELSE <<>>)
    \o (IF Truthy(settings.extend_ignore)
        THEN <<"--extend-ignore=" \o Join(Get(settings.extend_ignore), ",")>>
        ELSE <<>>)
    \o (IF Truthy(settings.per_file_ignores)
        THEN per_file_ignores_args(path, Get(settings.per_file_ignores))
        ELSE <<>>)
    \o extra_arguments
    \o <<"--", "-">>

\* what the subprocess wrote to standard output: nothing, a JSON array of
\* findings, JSON of another shape, text that is no JSON, or a document text
EmptyOut == [kind |-> "empty", checks |-> <<>>, text |-> <<>>]
InvalidJson == [kind |-> "invalid", checks |-> <<>>, text |-> <<>>]
OtherJson == [kind |-> "other", checks |-> <<>>, text |-> <<>>]
JsonOut(checks) == [kind |-> "array", checks |-> checks, text |-> <<>>]
TextOut(text) == [kind |-> "text", checks |-> <<>>, text |-> text]

\* one run of the subprocess: Popen fails, or the process ends with an exit
\* code and what it wrote
SpawnFails == [spawn |-> FALSE, returncode |-> 0, stdout |-> EmptyOut]
Exits(returncode, stdout) ==
    [spawn |-> TRUE, returncode |-> returncode, stdout |-> stdout]

\* run_ruff(settings, document_path, document_source, fix, extra_arguments);
\* proc is what the subprocess does.  After a failed Popen the name p is
\* unbound (executable set: the except clause only logs) or the error of
\* Popen itself escapes (executable None: no try block).
run_ruff(settings, path, source, fix, extra_arguments, proc) ==
    LET arguments == build_arguments(path, settings, fix, extra_arguments)
        cmd == IF ~IsNone(settings.executable)
               THEN <<Get(settings.executable)>> \o arguments
               ELSE <<"python", "-m", "ruff">> \o arguments
        call == [cmd |-> cmd, stdin |-> source]
    IN  IF ~proc.spawn
        THEN IF ~IsNone(settings.executable)
             THEN [raised |-> "UnboundLocalError", stdout |-> EmptyOut,
                   log |-> <<"Can't execute ruff">>, call |-> call]
             ELSE [raised |-> "OSError", stdout |-> EmptyOut,
                   log |-> <<>>, call |-> call]
        ELSE [raised |-> "none", stdout |-> proc.stdout,
              log |-> IF proc.returncode # 0 THEN <<"Error running ruff">>
                      ELSE <<>>,
              call |-> call]

\* run_ruff_check(document, settings): json.loads of the output, [] on
\* JSONDecodeError, then converter.structure(result, List[RuffCheck])
run_ruff_check(doc, settings, proc) ==
    LET r == run_ruff(settings, doc.path, doc.lines, FALSE, <<>>, proc)
    IN  IF r.raised # "none" THEN [r EXCEPT !.stdout = <<>>]
        ELSE IF r.stdout.kind = "array" THEN [r EXCEPT !.stdout = r.stdout.checks]
        ELSE IF r.stdout.kind = "other"
             THEN [r EXCEPT !.raised = "StructureError", !.stdout = <<>>]
        ELSE [r EXCEPT !.stdout = <<>>]

\* run_ruff_fix(document, settings): the output as the new document text
run_ruff_fix(doc, settings, proc) ==
    LET r == run_ruff(settings, doc.path, doc.lines, TRUE, <<>>, proc)
    IN  [r EXCEPT !.stdout = r.stdout.text]

\* a format run that restricts the fixes to settings.format alone
run_ruff_format_without_I(settings, path, source, proc) ==
    LET fixable_codes == IF Truthy(settings.format)
                         THEN Get(settings.format) ELSE <<>>
        extra_arguments == <<"--fixable=" \o Join(fixable_codes, ",")>>
        r == run_ruff(settings, path, source, TRUE, extra_arguments, proc)
    IN  [r EXCEPT !.stdout = r.stdout.text]

\* run_ruff_format(settings, document_path, document_source)
run_ruff_format(settings, path, source, proc) ==
    LET fixable_codes == <<"I">> \o (IF Truthy(settings.format)
                                     THEN Get(settings.format) ELSE <<>>)
        extra_arguments == <<"--fixable=" \o Join(fixable_codes, ",")>>
        r == run_ruff(settings, path, source, TRUE, extra_arguments, proc)
    IN  [r EXCEPT !.stdout = r.stdout.text]

(***************************************************************************)
(* plugin.py: the hooks                                                    *)
(***************************************************************************)
\* pylsp_lint(workspace, document)
pylsp_lint(cfg, fs, doc, proc) ==
    LET settings == load_settings(cfg, fs)
        r == run_ruff_check(doc, settings, proc)
    IN  [op |-> "lint",
         raised |-> r.raised,
         settings |-> settings,
         result |-> IF r.raised # "none" THEN <<>>
                    ELSE [i \in 1..Len(r.stdout) |->
                             create_diagnostic(r.stdout[i], settings)],
         calls |-> <<r.call>>,
         log |-> r.log]

\* a format hook that emits the edit without comparing the output with what
\* was fed to the tool
pylsp_format_document_always_edits(cfg, fs, doc, upstream, proc) ==
    LET source == IF Truthy(upstream) THEN Get(upstream)[1].new_text
                  ELSE doc.lines
        settings == load_settings(cfg, fs)
        r == run_ruff_format(settings, doc.path, source, proc)
        range == Range(Position(0, 0), Position(Len(doc.lines), 0))
    IN  [op |-> "format", raised |-> r.raised, settings |-> settings,
         forced |-> r.raised = "none",
         result |-> IF r.raised # "none" THEN upstream
                    ELSE Some(<<TextEdit(range, r.stdout)>>),
         calls |-> <<r.call>>, log |-> r.log]

\* a format hook that feeds the tool the document source whatever the
\* formatters before it produced
pylsp_format_document_ignores_upstream(cfg, fs, doc, upstream, proc) ==
    LET settings == load_settings(cfg, fs)
        r == run_ruff_format(settings, doc.path, doc.lines, proc)
        range == Range(Position(0, 0), Position(Len(doc.lines), 0))
        forced == r.raised = "none" /\ r.stdout # doc.lines
    IN  [op |-> "format", raised |-> r.raised, settings |-> settings,
         forced |-> forced,
         result |-> IF forced THEN Some(<<TextEdit(range, r.stdout)>>)
                    ELSE upstream,
         calls |-> <<r.call>>, log |-> r.log]

\* pylsp_format_document(workspace, document), a hook wrapper: upstream is
\* outcome.get_result(), what the formatters before it produced; result is
\* what the outcome holds when the hook is done
pylsp_format_document(cfg, fs, doc, upstream, proc) ==
    LET source == IF Truthy(upstream) THEN Get(upstream)[1].new_text
                  ELSE doc.lines
        settings == load_settings(cfg, fs)
        r == run_ruff_format(settings, doc.path, source, proc)
        new_text == r.stdout
        range == Range(Position(0, 0), Position(Len(doc.lines), 0))
        forced == r.raised = "none" /\ new_text # source
    IN  [op |-> "format",
         raised |-> r.raised,
         settings |-> settings,
         forced |-> forced,
         result |-> IF forced THEN Some(<<TextEdit(range, new_text)>>)
                    ELSE upstream,
         calls |-> <<r.call>>,
         log |-> r.log]

\* a loop without the safety gate: every fix is turned into an action
fix_offered_ungated(diagnostic, settings) == ~IsNone(diagnostic.data)

\* "if diagnostic.data" followed by the safety gate of the loop: the fix of
\* the diagnostic is turned into an action
fix_offered(diagnostic, settings) ==
    /\ ~IsNone(diagnostic.data)
    /\ ~(Get(diagnostic.data).applicability # "safe" /\ ~settings.unsafe_fixes)

RECURSIVE context_actions(_, _, _)
\* the loop of pylsp_code_actions over the context diagnostics
context_actions(diagnostics, settings, doc) ==
    IF diagnostics = <<>> THEN <<>>
    ELSE LET diagnostic == Head(diagnostics)
         IN  <<create_disable_code_action(doc, diagnostic)>>
             \o (IF ~fix_offered(diagnostic, settings) THEN <<>>
                 ELSE IF Str(diagnostic.code) = "I001"
                 THEN <<create_organize_imports_code_action(
                            diagnostic, Get(diagnostic.data))>>
                 ELSE <<create_fix_code_action(diagnostic, Get(diagnostic.data))>>)
             \o context_actions(Tail(diagnostics), settings, doc)

\* a filter that keeps only the findings whose fix is safe
HasFix_safe_only(check) ==
    ~IsNone(check.fix) /\ Get(check.fix).applicability = "safe"

\* checks_with_fixes = [c for c in checks if c.fix]
HasFix(check) == ~IsNone(check.fix)
IsOrganizeImports(check) == Str(check.code) = "I001"

\* a fresh pass that adds its organize-imports action whatever the context
\* loop produced
organize_from_fresh_pass_always(has_organize_imports, checks_organize_imports) ==
    checks_organize_imports # <<>>

\* "if not has_organize_imports and checks_organize_imports"
organize_from_fresh_pass(has_organize_imports, checks_organize_imports) ==
    ~has_organize_imports /\ checks_organize_imports # <<>>

\* pylsp_code_actions once the fresh findings are sorted out: r and f are
\* what run_ruff_check and run_ruff_fix give
code_actions_assembled(settings, doc, diagnostics, r, f, checks_with_fixes, checks_organize_imports) ==
    LET has_organize_imports ==
            \E i \in 1..Len(diagnostics) :
                /\ fix_offered(diagnostics[i], settings)
                /\ Str(diagnostics[i].code) = "I001"
        organize == organize_from_fresh_pass(has_organize_imports,
                                             checks_organize_imports)
        diagnostic == create_diagnostic(checks_organize_imports[1], settings)
        failed(exception, calls, log) ==
            [op |-> "code_actions", raised |-> exception, settings |-> settings,
             result |-> <<>>, calls |-> calls, log |-> log]
    IN  IF \E i \in 1..Len(diagnostics) : disable_raises(doc, diagnostics[i])
            THEN failed("IndexError", <<>>, <<>>)
        ELSE IF r.raised # "none"
            THEN failed(r.raised, <<r.call>>, r.log)
        ELSE IF organize /\ disable_raises(doc, diagnostic)
            THEN failed("IndexError", <<r.call>>, r.log)
        ELSE IF checks_with_fixes # <<>> /\ f.raised # "none"
            THEN failed(f.raised, <<r.call, f.call>>, r.log \o f.log)
        ELSE [op |-> "code_actions",
              raised |-> "none",
              settings |-> settings,
              result |->
                  context_actions(diagnostics, settings, doc)
                  \o (IF organize
                      THEN <<create_organize_imports_code_action(
                                 diagnostic, Get(checks_organize_imports[1].fix)),
                             create_disable_code_action(doc, diagnostic)>>
                      ELSE <<>>)
                  \o (IF checks_with_fixes # <<>>
                      THEN <<create_fix_all_code_action(doc, f.stdout)>>
                      ELSE <<>>),
              calls |-> IF checks_with_fixes # <<>> THEN <<r.call, f.call>>
                        ELSE <<r.call>>,
              log |-> IF checks_with_fixes # <<>> THEN r.log \o f.log ELSE r.log]

\* checks_organize_imports = [c for c in checks_with_fixes if c.code == "I001"]
code_actions_with_fixes(settings, doc, diagnostics, r, f, checks_with_fixes) ==
    code_actions_assembled(settings, doc, diagnostics, r, f, checks_with_fixes,
                           SelectSeq(checks_with_fixes, IsOrganizeImports))

\* checks = run_ruff_check(...); checks_with_fixes = [c for c in checks if c.fix]
code_actions_with_checks(settings, doc, diagnostics, r, f) ==
    code_actions_with_fixes(settings, doc, diagnostics, r, f,
                            IF r.raised = "none" THEN SelectSeq(r.stdout, HasFix)
                            ELSE <<>>)

\* settings = load_settings(workspace, document.path)
code_actions_with_settings(settings, doc, diagnostics, check_proc, fix_proc) ==
    code_actions_with_checks(settings, doc, diagnostics,
                             run_ruff_check(doc, settings, check_proc),
                             run_ruff_fix(doc, settings, fix_proc))

\* pylsp_code_actions(config, workspace, document, range, context);
\* check_proc and fix_proc are what the subprocess does in the check pass and
\* in the fix pass
pylsp_code_actions(cfg, fs, doc, diagnostics, check_proc, fix_proc) ==
    code_actions_with_settings(load_settings(cfg, fs), doc, diagnostics,
                               check_proc, fix_proc)

(***************************************************************************)
(* Calls                                                                   *)
(***************************************************************************)
Idle == [op |-> "idle"]

\* workspace._config.update({"plugins": {"ruff": {k: v}}})
UpdateConfig(keys) ==
    /\ request.op = "idle"
    /\ \E k \in keys : \E v \in ConfigValues[k] :
          /\ config' = (k :> v) @@ config
          /\ Cardinality(Overrides(config')) <= MaxOverrides
    /\ UNCHANGED <<files, document, request, response>>

\* a pyproject.toml is written, rewritten or removed in an ancestor directory
WritePyproject ==
    /\ request.op = "idle"
    /\ \E d \in DOMAIN files : \E kind \in PyprojectKinds :
          files' = [files EXCEPT ![d].pyproject = kind]
    /\ UNCHANGED <<config, document, request, response>>

\* a ruff.toml or .ruff.toml is created or removed in an ancestor directory
WriteRuffToml ==
    /\ request.op = "idle"
    /\ \E d \in DOMAIN files : \E present \in BOOLEAN :
          files' = [files EXCEPT ![d].ruff_toml = present]
    /\ UNCHANGED <<config, document, request, response>>

\* load_settings called on its own, as the tests do
LoadSettings ==
    /\ request.op = "idle"
    /\ request' = [op |-> "load_settings"]
    /\ response' = [op |-> "load_settings",
                    raised |-> "none",
                    settings |-> load_settings(config, files)]
    /\ UNCHANGED <<config, files, document>>

\* the caller takes the result
Return ==
    /\ request.op # "idle"
    /\ request' = Idle
    /\ response' = Idle
    /\ UNCHANGED <<config, files, document>>

(***************************************************************************)
(* Inputs: documents, findings, subprocess behaviour                       *)
(***************************************************************************)
\* the lines documents are made of: one plain, one with a bare suppression
LineX == <<"x">>
LineNoqa == <<"y", " ", "#", " ", "n", "o", "q", "a">>
Lines == {LineX, LineNoqa}

\* lines per text
MaxLines == 2
\* findings per check pass
MaxChecks == 1
\* diagnostics per code-action context
MaxContext == 2

SeqsUpTo(S, n) == UNION {[1..k -> S] : k \in 0..n}

Texts == SeqsUpTo(Lines, MaxLines)

\* the document the workspace holds at first: pkg/mod.py under the root
TheDocument ==
    [path |-> <<"root", "pkg", "mod.py">>, lines |-> <<LineX, LineNoqa>>]

I001 == <<"I", "0", "0", "1">>
F401 == <<"F", "4", "0", "1">>
F841 == <<"F", "8", "4", "1">>
E501 == <<"E", "5", "0", "1">>

\* the findings the check pass reports in the hook specifications: an import
\* block to organize (fix safe or unsafe), an unused import (safe fix), an
\* unused variable (unsafe fix), a long line (no fix)
FlowChecks ==
    {Check(I001, "Import block is un-sorted or un-formatted",
           Location(1, 1), Location(2, 1),
           Some(Fix(<<Edit(<<LineX>>, Location(1, 1), Location(2, 1))>>,
                    "Organize imports", app))) : app \in {"safe", "unsafe"}}
    \cup
    {Check(F401, "os imported but unused", Location(1, 2), Location(1, 3),
           Some(Fix(<<Edit(<<>>, Location(1, 1), Location(2, 1))>>,
                    "Remove unused import: os", "safe"))),
     Check(F841, "Local variable a is assigned to but never used",
           Location(2, 1), Location(2, 2),
           Some(Fix(<<Edit(<<LineX>>, Location(2, 1), Location(2, 2))>>,
                    "Remove assignment to unused variable a", "unsafe"))),
     Check(E501, "Line too long", Location(2, 1), Location(2, 2), None)}

\* what the subprocess can do in a check pass
CheckProcs ==
    {SpawnFails} \cup
    {Exits(rc, out) :
        rc \in {0, 1},
        out \in {EmptyOut, InvalidJson, OtherJson}
                \cup {JsonOut(cs) : cs \in SeqsUpTo(FlowChecks, MaxChecks)}}

\* what the subprocess can do in a format pass
FormatProcs ==
    {SpawnFails} \cup
    {Exits(rc, out) :
        rc \in {0, 1},
        out \in {EmptyOut} \cup {TextOut(t) : t \in Texts \ {<<>>}}}

\* what the subprocess can do in the fix pass of a code-action request
FixProcs ==
    {SpawnFails, Exits(0, EmptyOut), Exits(1, EmptyOut),
     Exits(0, TextOut(<<LineX>>))}

\* what the formatters before this one left in the outcome: nothing, an
\* empty list, or one whole-document edit
Upstreams(doc) ==
    {None, Some(<<>>)} \cup
    {Some(<<TextEdit(Range(Position(0, 0), Position(Len(doc.lines), 0)), t)>>) :
        t \in Texts \ {<<>>}}

\* the diagnostics a client hands back: what lint made of some finding
ContextDiagnostics(checks, settings) ==
    {create_diagnostic(c, settings) : c \in checks}

\* the coordinates the tool reports: rows and columns are one-based
MaxRow == 2
MaxColumn == 2
\* edits per fix
MaxEdits == 2

Locations == {Location(r, c) : r \in 1..MaxRow, c \in 1..MaxColumn}

NotAfter(a, b) == a.row < b.row \/ (a.row = b.row /\ a.column <= b.column)

\* a span ends at or after its start
Spans == {sp \in Locations \X Locations : NotAfter(sp[1], sp[2])}

Edits == {Edit(content, sp[1], sp[2]) : content \in {<<>>, <<LineX>>}, sp \in Spans}

\* the edits of a fix come in document order and do not overlap
EditLists ==
    {es \in SeqsUpTo(Edits, MaxEdits) :
        \A i \in 1..(Len(es) - 1) :
            NotAfter(es[i].end_location, es[i + 1].location)}

\* findings at every span without a fix, and findings with every list of
\* edits as their fix
SpanChecks ==
    {Check(code, "finding", sp[1], sp[2], None) :
        code \in {I001, F401, E501}, sp \in Spans}
    \cup
    {Check(code, "finding", Location(1, 1), Location(1, MaxColumn),
           Some(Fix(es, "fix", "safe"))) :
        code \in {I001, F401}, es \in EditLists}

\* a check pass that reports one of these findings, or nothing
SpanProcs == {Exits(0, JsonOut(<<c>>)) : c \in SpanChecks}
QuietProcs == {Exits(0, JsonOut(<<>>))}

\* a document that has every row the tool can report
LongDocument ==
    [path |-> <<"root", "pkg", "mod.py">>, lines |-> [i \in 1..MaxRow |-> LineX]]

(***************************************************************************)
(* The hooks as calls                                                      *)
(***************************************************************************)
\* textDocument/didChange: the document text is replaced
EditDocument(texts) ==
    /\ request.op = "idle"
    /\ \E t \in texts : document' = [document EXCEPT !.lines = t]
    /\ UNCHANGED <<config, files, request, response>>

PylspLint(procs) ==
    /\ request.op = "idle"
    /\ \E proc \in procs :
          /\ request' = [op |-> "lint", proc |-> proc]
          /\ response' = pylsp_lint(config, files, document, proc)
    /\ UNCHANGED <<config, files, document>>

PylspFormatDocument(upstreams, procs) ==
    /\ request.op = "idle"
    /\ \E upstream \in upstreams : \E proc \in procs :
          /\ request' = [op |-> "format", upstream |-> upstream, proc |-> proc]
          /\ response' = pylsp_format_document(config, files, document,
                                               upstream, proc)
    /\ UNCHANGED <<config, files, document>>

PylspCodeActions(checks, n, check_procs, fix_procs) ==
    /\ request.op = "idle"
    /\ \E context \in SeqsUpTo(ContextDiagnostics(checks,
                                                  load_settings(config, files)),
                               n) :
       \E check_proc \in check_procs : \E fix_proc \in fix_procs :
          LET r == pylsp_code_actions(config, files, document, context,
                                      check_proc, fix_proc)
          IN  /\ request' = [op |-> "code_actions",
                             context |-> context,
                             check_proc |-> check_proc,
                             fix_proc |-> IF Len(r.calls) = 2 THEN fix_proc
                                          ELSE SpawnFails]
              /\ response' = r
    /\ UNCHANGED <<config, files, document>>

Init ==
    /\ config = DefaultConfig
    /\ files = NoFiles
    /\ document = TheDocument
    /\ request = Idle
    /\ response = Idle

NextSettings ==
    \/ UpdateConfig(ConfigKeys)
    \/ WritePyproject
    \/ WriteRuffToml
    \/ LoadSettings
    \/ Return

\* settings resolution under every host configuration and project layout
SpecSettings == Init /\ [][NextSettings]_vars

Next ==
    \/ UpdateConfig({"executable", "format", "formatEnabled"})
    \/ EditDocument(Texts)
    \/ PylspLint(CheckProcs)
    \/ PylspFormatDocument(Upstreams(document), FormatProcs)
    \/ Return

\* lint and format requests of one document
Spec == Init /\ [][Next]_vars

NextActions ==
    \/ UpdateConfig({"unsafeFixes"})
    \/ EditDocument({<<LineX, LineNoqa>>, <<LineX>>})
    \/ PylspCodeActions(FlowChecks, MaxContext, CheckProcs, FixProcs)
    \/ Return

\* code-action requests of one document
SpecActions == Init /\ [][NextActions]_vars

\* lines without a suppression comment: 'x', '', 'x #', 'x  #noqa', 'x  # ruff:',
\* 'x  # no'
PlainLines ==
    {<<"x">>,
     <<>>,
     <<"x", " ", "#">>,
     <<"x", " ", " ", "#", "n", "o", "q", "a">>,
     <<"x", " ", " ", "#", " ", "r", "u", "f", "f", ":">>,
     <<"x", " ", " ", "#", " ", "n", "o">>}

\* lines with a suppression comment that lists no codes, also where a code
\* is in lower case, two blanks follow the colon or text follows
BareNoqaLines ==
    {<<"x", " ", " ", "#", " ", "n", "o", "q", "a">>,
     <<"#", " ", "N", "O", "Q", "A">>,
     <<"x", " ", " ", "#", " ", "r", "u", "f", "f", ":", " ", "n", "o", "q", "a">>,
     <<"x", " ", " ", "#", " ", "f", "l", "a", "k", "e", "8", ":", " ", "n", "o", "q", "a">>,
     <<"x", " ", " ", "#", " ", "n", "o", "q", "a", ":", " ", "e", "5", "0", "1">>,
     <<"x", " ", " ", "#", " ", "n", "o", "q", "a", ":", " ", " ", "E", "5", "0", "1">>,
     <<"x", " ", " ", "#", " ", "n", "o", "q", "a", " ", "t">>}

\* lines with a suppression comment and a list of codes, the last with text
\* after the list
ListedNoqaLines ==
    {<<"x", " ", " ", "#", " ", "n", "o", "q", "a", ":", " ", "E", "5", "0", "1">>,
     <<"x", " ", " ", "#", " ", "n", "o", "q", "a", ":", "E", "5", "0", "1">>,
     <<"x", " ", " ", "#", " ", "n", "o", "q", "a", ":", " ", "E", "5", "0", "1", ",", "W", "2", "9", "1">>,
     <<"x", " ", " ", "#", " ", "r", "u", "f", "f", ":", " ", "n", "o", "q", "a", ":", " ", "E", "5", "0", "1">>,
     <<"x", " ", " ", "#", " ", "n", "o", "q", "a", ":", " ", "E", "5", "0", "1", " ", "t">>}

DisableLines == PlainLines \cup BareNoqaLines \cup ListedNoqaLines

\* the line as the only one of the document, or as its second
DisableTexts == {<<l>> : l \in DisableLines} \cup {<<LineX, l>> : l \in DisableLines}

\* findings without a fix on the first and on the second row
DisableChecks ==
    {Check(code, "finding", Location(row, 1), Location(row, 2), None) :
        code \in {F401, E501}, row \in {1, 2}}

\* the values a user gives the options that become arguments: null, empty
\* and non-empty ones
ArgumentValues ==
    [executable |-> {None, Some("/tmp/ruff")},
     config |-> {None, Some(""), Some("/tmp/pyproject.toml")},
     lineLength |-> {None, Some(0), Some(88)},
     exclude |-> {None, Some(<<>>), Some(<<"build">>)},
     select |-> {None, Some(<<>>), Some(<<"F">>), Some(<<"E", "F">>)},
     extendSelect |-> {None, Some(<<>>), Some(<<"D", "F">>)},
     ignore |-> {None, Some(<<>>), Some(<<"E501">>)},
     extendIgnore |-> {None, Some(<<>>), Some(<<"E">>)},
     perFileIgnores |->
        {None, Some(<<>>),
         Some(<< <<<<"mod.py">>, <<"F401">>>> >>),
         Some(<< <<<<"other.py">>, <<"W291">>>> >>),
         Some(<< <<<<"other.py">>, <<"W291">>>>, <<<<"mod.py">>, <<"F401">>>>,
                 <<<<"pkg", "mod.py">>, <<"E501", "E402">>>> >>)},
     format |-> {None, Some(<<>>), Some(<<"I001">>), Some(<<"E", "F">>)},
     unsafeFixes |-> {TRUE, FALSE}]

RECURSIVE ArgumentConfigs(_)
\* the host configurations with at most n options set
ArgumentConfigs(n) ==
    IF n = 0 THEN {DefaultConfig}
    ELSE ArgumentConfigs(n - 1) \cup
         UNION {{(k :> v) @@ cfg : cfg \in ArgumentConfigs(n - 1),
                                   v \in ArgumentValues[k]} :
                   k \in DOMAIN ArgumentValues}

\* a saved document, and one that has no path yet
ArgumentDocuments ==
    {TheDocument, [path |-> <<>>, lines |-> <<LineX>>]}

InitArguments ==
    /\ config \in ArgumentConfigs(MaxOverrides)
    /\ files \in {NoFiles, [NoFiles EXCEPT !["root"].ruff_toml = TRUE]}
    /\ document \in ArgumentDocuments
    /\ request = Idle
    /\ response = Idle

NextArguments ==
    \/ PylspLint(QuietProcs)
    \/ PylspFormatDocument({None}, {Exits(0, EmptyOut)})
    \/ PylspCodeActions(FlowChecks, 0, {Exits(0, JsonOut(<<c>>)) : c \in FlowChecks},
                        {Exits(0, EmptyOut)})
    \/ Return

\* the commands of the check, format and fix runs under every setting of the
\* options
SpecArguments == InitArguments /\ [][NextArguments]_vars

NextRequests ==
    \/ UpdateConfig({"select"})
    \/ WritePyproject
    \/ WriteRuffToml
    \/ PylspLint(QuietProcs)
    \/ PylspFormatDocument(Upstreams(document), FormatProcs)
    \/ PylspCodeActions(FlowChecks, 1, QuietProcs, {SpawnFails})
    \/ Return

\* requests of the three hooks between changes of the host configuration
\* and of the project files
SpecRequests == Init /\ [][NextRequests]_vars

\* characters per line of a document the client edits through actions
MaxLineLength == 26

\* the client applies a returned action whose one edit replaces a whole line
ApplyLineEdit ==
    /\ response.op = "code_actions"
    /\ response.raised = "none"
    /\ \E j \in DOMAIN response.result :
          LET action == response.result[j]
              edit == action.edit[1]
              row == edit.range.start.line + 1
          IN  /\ Len(action.edit) = 1
              /\ Len(action.diagnostics) = 1
              /\ edit.range.end.line = edit.range.start.line
              /\ row <= Len(document.lines)
              /\ edit.range.start.character = 0
              /\ edit.range.end.character = Len(document.lines[row])
              /\ Len(edit.new_text) = 1
              /\ Len(edit.new_text[1]) <= MaxLineLength
              /\ document' = [document EXCEPT !.lines[row] = edit.new_text[1]]
              /\ request' = [op |-> "apply", row |-> row,
                             before |-> document.lines[row],
                             code |-> action.diagnostics[1].code]
              /\ response' = [op |-> "apply"]
    /\ UNCHANGED <<config, files>>

NextDisable ==
    \/ EditDocument(DisableTexts)
    \/ PylspCodeActions(DisableChecks, 1, QuietProcs, {SpawnFails})
    \/ ApplyLineEdit
    \/ Return

\* disable actions on lines with and without suppression comments, and the
\* lines that applying them leaves
SpecDisable == Init /\ [][NextDisable]_vars

\* the codes of the findings whose severity and tags are translated
DiagnosticCodes ==
    {<<"E", "9", "9", "9">>, <<"E", "9", "9">>, E501, I001, <<"W", "2", "9", "1">>,
     F401, <<"F", "5", "0", "4">>, <<"F", "5", "2", "2">>, <<"F", "5", "2", "3">>,
     F841, <<"F", "4", "0", "2">>, <<"F", "4", "0">>}

\* the letters a user writes in a severities entry: the four of the table,
\* a lower-case one and others the table does not hold
SeverityLetters == {"E", "W", "I", "H", "e", "X", "Error"}

\* entries per severities dict
MaxSeverities == 1

\* the severities dicts of the host configuration: keys are distinct codes
SeverityDicts ==
    {d \in SeqsUpTo({<<Str(code), letter>> :
                        code \in DiagnosticCodes, letter \in SeverityLetters},
                    MaxSeverities) :
        \A i, j \in DOMAIN d : i # j => d[i][1] # d[j][1]}

CodeChecks ==
    {Check(code, "finding", Location(1, 1), Location(1, 2), None) :
        code \in DiagnosticCodes}

CodeProcs == {Exits(0, JsonOut(<<c>>)) : c \in CodeChecks}

InitDiagnostic ==
    /\ config \in {DefaultConfig} \cup
                  {[DefaultConfig EXCEPT !["severities"] = Some(d)] :
                      d \in SeverityDicts}
    /\ files = NoFiles
    /\ document = TheDocument
    /\ request = Idle
    /\ response = Idle

NextDiagnostic ==
    \/ PylspLint(CodeProcs)
    \/ Return

\* the severity and the tags of one finding under every severities dict
SpecDiagnostic == InitDiagnostic /\ [][NextDiagnostic]_vars

InitTranslate ==
    /\ config = DefaultConfig
    /\ files = NoFiles
    /\ document = LongDocument
    /\ request = Idle
    /\ response = Idle

NextTranslate ==
    \/ PylspLint(SpanProcs)
    \/ PylspCodeActions(SpanChecks, 1, QuietProcs, {SpawnFails})
    \/ Return

\* the translation of one finding at every position, by the lint hook and
\* by the code-action hook
SpecTranslate == InitTranslate /\ [][NextTranslate]_vars

\* what a chain of earlier formatters can leave: the outcomes above, or a
\* result of two edits, each replacing one line
ChainUpstreams(doc) ==
    Upstreams(doc) \cup
    {Some(<<TextEdit(Range(Position(0, 0), Position(1, 0)), <<LineNoqa>>),
            TextEdit(Range(Position(1, 0), Position(2, 0)), <<LineX>>)>>)}

NextChain ==
    \/ EditDocument(Texts)
    \/ PylspFormatDocument(ChainUpstreams(document), FormatProcs)
    \/ Return

\* format requests behind other formatters
SpecChain == Init /\ [][NextChain]_vars

\* findings per lint pass whose diagnostics are handed back
MaxPublished == 2

\* the edits of the fixes that travel as payload: one edit, or two edits
\* with different content
PayloadEdits ==
    {<<Edit(<<>>, Location(1, 1), Location(2, 1))>>,
     <<Edit(<<LineNoqa>>, Location(1, 2), Location(1, 2))>>,
     <<Edit(<<LineX>>, Location(1, 1), Location(1, 2)),
       Edit(<<>>, Location(2, 1), Location(2, 2))>>}

\* findings without a fix, and with every such fix, safe or unsafe
PayloadChecks ==
    {Check(code, "finding", Location(1, 1), Location(1, 2), fix) :
        code \in {I001, F401},
        fix \in {None} \cup {Some(Fix(es, "fix", app)) :
                                es \in PayloadEdits, app \in {"safe", "unsafe"}}}

\* a check pass reports findings that differ from one another
PayloadProcs ==
    {Exits(0, JsonOut(cs)) :
        cs \in {l \in SeqsUpTo(PayloadChecks, MaxPublished) :
                   \A i, k \in DOMAIN l : i # k => l[i] # l[k]}}

\* the fresh pass of the code-action request finds nothing, or a long line
FreshProcs ==
    QuietProcs \cup
    {Exits(0, JsonOut(<<Check(E501, "Line too long", Location(2, 1),
                              Location(2, 2), None)>>))}

\* the elements of a list at the picked indices, in the order of the list
Pick(list, picked) ==
    [k \in 1..Cardinality(picked) |->
        list[CHOOSE i \in picked : Cardinality({j \in picked : j < i}) = k - 1]]

\* textDocument/codeAction for diagnostics the lint hook has just returned:
\* the client hands some of them back, unchanged and in order, as the
\* context, and the hook reads each payload with converter.structure
PylspCodeActionsOfLint(check_procs, fix_procs) ==
    /\ request.op = "lint"
    /\ response.raised = "none"
    /\ \E picked \in SUBSET DOMAIN response.result :
       \E check_proc \in check_procs : \E fix_proc \in fix_procs :
          LET published == [i \in DOMAIN response.result |->
                               unstructure_diagnostic(response.result[i])]
              handed == Pick(published, picked)
          IN  /\ request' = [op |-> "code_actions",
                             context |-> [i \in DOMAIN handed |->
                                             structure_diagnostic(handed[i])],
                             check_proc |-> check_proc,
                             fix_proc |-> fix_proc,
                             published |-> handed,
                             findings |-> Pick(request.proc.stdout.checks, picked)]
              /\ response' = pylsp_code_actions(
                                 config, files, document,
                                 [i \in DOMAIN handed |->
                                     structure_diagnostic(handed[i])],
                                 check_proc, fix_proc)
    /\ UNCHANGED <<config, files, document>>

NextPayload ==
    \/ UpdateConfig({"unsafeFixes"})
    \/ PylspLint(PayloadProcs)
    \/ PylspCodeActionsOfLint(FreshProcs, {SpawnFails})
    \/ Return

\* lint requests followed by code-action requests for what lint returned
SpecPayload == Init /\ [][NextPayload]_vars

(***************************************************************************)
(* Settings resolution: C1, C2                                             *)
(***************************************************************************)
\* the pyproject.toml nearest to the document, "absent" when there is none
NearestPyproject ==
    IF files["pkg"].pyproject # "absent" THEN files["pkg"].pyproject
    ELSE files["root"].pyproject

AnyRuffToml == \E d \in DOMAIN files : files[d].ruff_toml

\* C1: when the nearest pyproject.toml declares [tool.ruff], or a ruff.toml /
\* .ruff.toml is found, load_settings returns config, line_length, exclude,
\* select, ignore and per_file_ignores null, and enabled, executable,
\* unsafe_fixes, extend_ignore, extend_select, format and severities as the
\* host configured them.
C1_SettingsDelegation ==
    (response.op = "load_settings"
        /\ (NearestPyproject = "ruff_table" \/ AnyRuffToml))
    => /\ response.raised = "none"
       /\ \A f \in {"config", "line_length", "exclude", "select", "ignore",
                    "per_file_ignores"} : response.settings[f] = None
       /\ response.settings.enabled = config["enabled"]
       /\ response.settings.executable = config["executable"]
       /\ response.settings.unsafe_fixes = config["unsafeFixes"]
       /\ response.settings.extend_ignore = config["extendIgnore"]
       /\ response.settings.extend_select = config["extendSelect"]
       /\ response.settings.format = config["format"]
       /\ response.settings.severities = config["severities"]

\* a delegating resolution under a host configuration that sets a rule
\* selection field and a field that passes through
C1_Witness ==
    /\ response.op = "load_settings"
    /\ NearestPyproject = "ruff_table"
    /\ config["select"] # None
    /\ config["extendSelect"] # None
    /\ response.settings.select = None

FreshChecks ==
    IF request.check_proc.spawn /\ request.check_proc.stdout.kind = "array"
    THEN request.check_proc.stdout.checks ELSE <<>>

FreshWithFix == {i \in DOMAIN FreshChecks : FreshChecks[i].fix # None}

FreshOrganize ==
    {i \in FreshWithFix : FreshChecks[i].code = I001}

IsDisable(a) ==
    /\ a.kind = "quickfix"
    /\ a.title = "Ruff (" \o Str(a.diagnostics[1].code) \o "): Disable for this line"

IsQuickFix(a) == a.kind = "quickfix" /\ ~IsDisable(a)
IsOrganize(a) == a.kind = "source.organizeImports"
IsFixAll(a) == a.kind = "source.fixAll"

Returned == response.op = "code_actions" /\ response.raised = "none"

\* the positions of the returned list that hold an action of some sort
QuickFixes == {j \in DOMAIN response.result : IsQuickFix(response.result[j])}
Organizes == {j \in DOMAIN response.result : IsOrganize(response.result[j])}
Disables == {j \in DOMAIN response.result : IsDisable(response.result[j])}
FixAlls == {j \in DOMAIN response.result : IsFixAll(response.result[j])}

UnsafeFix(diagnostic) ==
    diagnostic.data # None /\ diagnostic.data[1].applicability = "unsafe"

\* context diagnostics for code I001 whose fix the context loop offers
ContextOrganize ==
    {i \in DOMAIN request.context :
        /\ request.context[i].code = I001
        /\ request.context[i].data # None
        /\ (request.context[i].data[1].applicability = "safe"
            \/ response.settings.unsafe_fixes)}

C4_OneOrganizeImports_AsStated ==
    (/\ Returned
     /\ \E i \in DOMAIN request.context :
           request.context[i].code = I001 /\ request.context[i].data # None
     /\ FreshOrganize # {})
    => Cardinality(Organizes) = 1

\* C4, amended: the fresh pass adds no organize-imports action when the
\* context loop produced one: the list then holds one organize-imports
\* action per context I001 diagnostic whose fix is offered (exactly one when
\* there is one such diagnostic).  When the context loop produced none and
\* the fresh pass has an I001 finding with a fix, the fresh pass adds exactly
\* one organize-imports action, directly followed by one disable action for
\* the same finding; otherwise it adds neither.
C4_OneOrganizeImports ==
    Returned =>
      /\ ContextOrganize # {} =>
            /\ Cardinality(Organizes) = Cardinality(ContextOrganize)
            /\ Cardinality(Disables) = Len(request.context)
      /\ (ContextOrganize = {} /\ FreshOrganize # {}) =>
            /\ Cardinality(Organizes) = 1
            /\ Cardinality(Disables) = Len(request.context) + 1
            /\ \A j \in Organizes :
                  /\ j + 1 \in Disables
                  /\ response.result[j + 1].diagnostics = response.result[j].diagnostics
                  /\ response.result[j].diagnostics[1].code = I001
      /\ (ContextOrganize = {} /\ FreshOrganize = {}) =>
            /\ Organizes = {}
            /\ Cardinality(Disables) = Len(request.context)

\* an I001 finding with a safe fix comes with the context and with the fresh
\* pass, and one organize-imports action is returned
C4_Witness ==
    /\ Returned
    /\ Cardinality(ContextOrganize) = 1
    /\ FreshOrganize # {}
    /\ Cardinality(Organizes) = 1

(***************************************************************************)
(* Failure handling and formatting: C5, C6, C7, C8                         *)
(***************************************************************************)
\* the invocation failed: the executable could not be spawned, or it exited
\* non-zero and wrote nothing
Failed(proc) ==
    \/ ~proc.spawn
    \/ proc.returncode # 0 /\ proc.stdout = EmptyOut

\* C5: when the tool invocation of a hook call fails, the lint hook returns
\* the empty list and the format hook emits no edit (the outcome of the
\* earlier formatters stays), no exception leaves the hook, and the
\* invocation is made once, not repeated.
C5_FailedInvocation ==
    (response.op \in {"lint", "format"} /\ Failed(request.proc)) =>
       /\ response.raised = "none"
       /\ Len(response.calls) = 1
       /\ response.op = "lint" => response.result = <<>>
       /\ response.op = "format" =>
             ~response.forced /\ response.result = request.upstream

\* C6: run_ruff never raises: when the executable cannot be spawned, or the
\* process exits non-zero, no exception of the invocation reaches the hook
\* and the failure is logged; a process that could not be spawned yields the
\* empty string.
C6_InvokerNeverRaises ==
    (/\ response.op \in {"lint", "format"}
     /\ (~request.proc.spawn \/ request.proc.returncode # 0)) =>
       /\ response.raised \notin {"UnboundLocalError", "OSError"}
       /\ response.log # <<>>

\* C7: with formatting disabled in the settings the format hook is a no-op:
\* it runs no tool, forces no result and leaves the outcome of the earlier
\* formatters as it was.
C7_FormatDisabledNoOp ==
    (/\ response.op = "format"
     /\ "formatEnabled" \in DOMAIN config
     /\ config["formatEnabled"] = FALSE) =>
       /\ response.calls = <<>>
       /\ ~response.forced
       /\ response.result = request.upstream

\* C8: for every format request that ran the tool without an exception: when
\* the output equals the text fed to the tool the hook forces nothing and
\* the earlier outcome stays; otherwise it forces exactly one text edit,
\* with range (0,0)-(number of document lines, 0) and the output as new text.
C8_FormatEditIffChanged ==
    (response.op = "format" /\ response.raised = "none") =>
       LET fed == response.calls[1].stdin
           out == request.proc.stdout.text
       IN  /\ out = fed =>
                 ~response.forced /\ response.result = request.upstream
           /\ out # fed =>
                 /\ response.forced
                 /\ response.result =
                       Some(<<[range |-> [start |-> [line |-> 0, character |-> 0],
                                          end |-> [line |-> Len(document.lines),
                                                   character |-> 0]],
                               new_text |-> out]>>)

\* the tool gave back the non-empty text it was fed, which an earlier
\* formatter had produced, and the hook forced nothing
C8_Witness ==
    /\ response.op = "format"
    /\ response.raised = "none"
    /\ request.upstream # None
    /\ request.upstream[1] # <<>>
    /\ response.calls[1].stdin = request.upstream[1][1].new_text
    /\ response.calls[1].stdin # document.lines
    /\ request.proc.stdout.text = response.calls[1].stdin
    /\ ~response.forced

(***************************************************************************)
(* Coordinates: C9, C10                                                    *)
(***************************************************************************)
\* C9: for every finding with a span from (r, c) to (r2, c2) in the tool's
\* one-based coordinates, the diagnostic the lint hook emits for it has the
\* range (r - 1, c - 1) to (r2 - 1, c2 - 1), and carries the finding's code
\* and message unchanged.
C9_DiagnosticCoordinates ==
    (response.op = "lint" /\ response.raised = "none") =>
       /\ Len(response.result) = Len(request.proc.stdout.checks)
       /\ \A i \in DOMAIN response.result :
             LET check == request.proc.stdout.checks[i]
                 d == response.result[i]
             IN  /\ d.range.start.line = check.location.row - 1
                 /\ d.range.start.character = check.location.column - 1
                 /\ d.range.end.line = check.end_location.row - 1
                 /\ d.range.end.character = check.end_location.column - 1
                 /\ d.code = check.code
                 /\ d.message = check.message

\* a finding that spans rows and does not start in the first column was
\* translated
C9_Witness ==
    /\ response.op = "lint"
    /\ response.raised = "none"
    /\ Len(response.result) = 1
    /\ request.proc.stdout.checks[1].location = [row |-> 1, column |-> 2]
    /\ request.proc.stdout.checks[1].end_location = [row |-> 2, column |-> 1]
    /\ response.result[1].range =
          [start |-> [line |-> 0, character |-> 1],
           end |-> [line |-> 1, character |-> 0]]

\* the action the code-action hook built from the fix of a context diagnostic
FixActions(i) ==
    {j \in QuickFixes \cup Organizes :
        response.result[j].diagnostics = <<request.context[i]>>}

\* C10 as stated: the text edit made of a fix edit at tool coordinates
\* (r, c) starts at row r - 1 and at the tool's column c, not decremented.
C10_EditCoordinates_AsStated ==
    Returned =>
       \A i \in DOMAIN request.context : \A j \in FixActions(i) :
          LET edits == request.context[i].data[1].edits
              changes == response.result[j].edit
          IN  \A k \in DOMAIN edits :
                 /\ changes[k].range.start.line = edits[k].location.row - 1
                 /\ changes[k].range.start.character = edits[k].location.column
                 /\ changes[k].range.end.line = edits[k].end_location.row - 1
                 /\ changes[k].range.end.character = edits[k].end_location.column

\* C10, amended: every context diagnostic whose fix is offered gets a fix
\* action with one text edit per fix edit, in the order of the fix; the text
\* edit made of a fix edit from (r, c) to (r2, c2) has the range
\* (r - 1, c - 1) to (r2 - 1, c2 - 1), the same remap as for diagnostics,
\* and the edit's content as new text.
C10_EditCoordinates ==
    Returned =>
       \A i \in DOMAIN request.context :
          request.context[i].data # None =>
             /\ FixActions(i) # {}
             /\ \A j \in FixActions(i) :
                   LET edits == request.context[i].data[1].edits
                       changes == response.result[j].edit
                   IN  /\ Len(changes) = Len(edits)
                       /\ \A k \in DOMAIN edits :
                             /\ changes[k].range.start.line =
                                   edits[k].location.row - 1
                             /\ changes[k].range.start.character =
                                   edits[k].location.column - 1
                             /\ changes[k].range.end.line =
                                   edits[k].end_location.row - 1
                             /\ changes[k].range.end.character =
                                   edits[k].end_location.column - 1
                             /\ changes[k].new_text = edits[k].content

\* a fix of two edits, the second away from the first column, was turned
\* into an action
C10_Witness ==
    /\ Returned
    /\ Len(request.context) = 1
    /\ request.context[1].data # None
    /\ Len(request.context[1].data[1].edits) = 2
    /\ request.context[1].data[1].edits[2].location = [row |-> 2, column |-> 2]
    /\ \E j \in FixActions(1) :
          /\ Len(response.result[j].edit) = 2
          /\ response.result[j].edit[2].range.start = [line |-> 1, character |-> 1]

(***************************************************************************)
(* Severity and tags: C11, C12                                             *)
(***************************************************************************)
\* the entries of the configured severities dict for exactly this code
SeverityEntries(code) ==
    IF config["severities"] = None THEN {}
    ELSE {config["severities"][1][i][2] :
             i \in {k \in DOMAIN config["severities"][1] :
                       config["severities"][1][k][1] = Str(code)}}

DefaultSeverity(code) ==
    IF code = <<"E", "9", "9", "9">> \/ code[1] = "F" THEN "Error" ELSE "Warning"

\* C11: with no override entry for exactly the finding's code the severity
\* is Error when the code is E999 or begins with F and Warning otherwise;
\* an entry with letter E, W, I or H gives Error, Warning, Information or
\* Hint whatever the default; an entry with another letter gives the
\* default.
C11_SeverityAssignment ==
    (response.op = "lint" /\ response.raised = "none") =>
       \A i \in DOMAIN response.result :
          LET code == request.proc.stdout.checks[i].code
              severity == response.result[i].severity
          IN  /\ SeverityEntries(code) = {} => severity = DefaultSeverity(code)
              /\ \A letter \in SeverityEntries(code) :
                    /\ letter = "E" => severity = "Error"
                    /\ letter = "W" => severity = "Warning"
                    /\ letter = "I" => severity = "Information"
                    /\ letter = "H" => severity = "Hint"
                    /\ letter \notin {"E", "W", "I", "H"} =>
                          severity = DefaultSeverity(code)

\* an F code, Error by default, was overridden to Hint
C11_Witness ==
    /\ response.op = "lint"
    /\ response.raised = "none"
    /\ Len(response.result) = 1
    /\ response.result[1].code = F401
    /\ SeverityEntries(F401) = {"H"}
    /\ response.result[1].severity = "Hint"

\* C12: the diagnostic of a finding carries the Unnecessary tag, and only
\* it, exactly when the code is one of F401, F504, F522, F523, F841; for
\* every other code the tag list is empty.
C12_UnnecessityTagging ==
    (response.op = "lint" /\ response.raised = "none") =>
       \A i \in DOMAIN response.result :
          LET code == request.proc.stdout.checks[i].code
          IN  IF code \in {<<"F", "4", "0", "1">>, <<"F", "5", "0", "4">>,
                           <<"F", "5", "2", "2">>, <<"F", "5", "2", "3">>,
                           <<"F", "8", "4", "1">>}
              THEN response.result[i].tags = <<"Unnecessary">>
              ELSE response.result[i].tags = <<>>

\* a finding of F522 was tagged
C12_Witness ==
    /\ response.op = "lint"
    /\ response.raised = "none"
    /\ Len(response.result) = 1
    /\ response.result[1].code = <<"F", "5", "2", "2">>
    /\ response.result[1].tags = <<"Unnecessary">>

(***************************************************************************)
(* Disable for this line: C13, C14                                         *)
(***************************************************************************)
\* the index after the suppression comment's "noqa", 0 without a comment
NoqaCommentEnd(line) ==
    LET starts == {i \in 1..Len(line) : NoqaEnd(line, i) > 0}
    IN  IF starts = {} THEN 0
        ELSE NoqaEnd(line, CHOOSE i \in starts : \A j \in starts : i <= j)

\* the index after the last code of the comment's code list
CodeListEnd(line) ==
    LET group == NOQA_REGEX_codes(line)
        ends == {q \in group[1]..group[2] : q > 1 /\ line[q - 1] \in Digits}
    IN  CHOOSE q \in ends : \A r \in ends : r <= q

InsertAt(line, q, text) ==
    SubSeq(line, 1, q - 1) \o text \o SubSeq(line, q, Len(line))

\* the line with the code added to its suppression, as the claim words it
LineWithCode(line, code) ==
    IF NoqaCommentEnd(line) = 0
        THEN line \o <<" ", " ", "#", " ", "n", "o", "q", "a", ":", " ">> \o code
    ELSE IF NOQA_REGEX_codes(line) # <<0, 0>>
        THEN InsertAt(line, CodeListEnd(line), <<",">> \o code)
    ELSE InsertAt(line, NoqaCommentEnd(line), <<":", " ">> \o code)

\* C13: the disable action of a diagnostic is one edit that replaces
\* characters 0..len(line) of the diagnostic's start line; its new text is
\* the line with the code added to the code list of the line's suppression
\* comment, or with ": CODE" attached to a bare suppression comment, or,
\* without a suppression, the line followed by two blanks and "# noqa: CODE".
C13_DisableLineConstruction ==
    Returned =>
       \A i \in DOMAIN request.context : \E j \in Disables :
          LET d == request.context[i]
              line == document.lines[d.range.start.line + 1]
              action == response.result[j]
          IN  /\ action.diagnostics = <<d>>
              /\ Len(action.edit) = 1
              /\ action.edit[1].range =
                    [start |-> [line |-> d.range.start.line, character |-> 0],
                     end |-> [line |-> d.range.start.line,
                              character |-> Len(line)]]
              /\ action.edit[1].new_text = <<LineWithCode(line, d.code)>>

\* the code lies in the codes group of the line's suppression comment
InCodeList(line, code) ==
    LET group == NOQA_REGEX_codes(line)
    IN  \E q \in group[1]..(group[2] - Len(code)) :
           /\ SubSeq(line, q, q + Len(code) - 1) = code
           /\ q = group[1] \/ line[q - 1] \notin UpperCase
           /\ q + Len(code) = group[2] \/ line[q + Len(code)] \notin Digits

\* the lines that a disable edit makes of a line without suppression
Disabled(code) ==
    {l \o <<" ", " ", "#", " ", "n", "o", "q", "a", ":", " ">> \o code :
        l \in PlainLines}

\* C14: when the disable edit for a code was applied to a line without a
\* suppression comment, detection on the resulting line finds a suppression
\* with an explicit code list that contains the code; a further disable
\* action on that line, for another code, takes the branch of the explicit
\* list and appends ",CODE".
C14_DisableRoundTrip ==
    /\ (request.op = "apply" /\ ~NOQA_REGEX_search(request.before).has_noqa) =>
          LET line == document.lines[request.row]
          IN  /\ NOQA_REGEX_search(line).has_noqa
              /\ NOQA_REGEX_search(line).has_codes
              /\ InCodeList(line, request.code)
    /\ Returned =>
          \A i \in DOMAIN request.context : \A j \in Disables :
             LET d == request.context[i]
                 line == document.lines[d.range.start.line + 1]
             IN  (/\ response.result[j].diagnostics = <<d>>
                  /\ \E code \in {F401, E501} : line \in Disabled(code))
                 => response.result[j].edit[1].new_text =
                       <<line \o <<",">> \o d.code>>

\* the disable edit for F401 was applied to a line that ends in a lone "#"
C14_Witness ==
    /\ request.op = "apply"
    /\ request.before = <<"x", " ", "#">>
    /\ request.code = F401
    /\ document.lines[request.row] =
          <<"x", " ", "#", " ", " ", "#", " ", "n", "o", "q", "a", ":", " ",
            "F", "4", "0", "1">>
    /\ InCodeList(document.lines[request.row], F401)

(***************************************************************************)
(* Fix all: C15                                                            *)
(***************************************************************************)
HasArgument(call, argument) == \E k \in DOMAIN call.cmd : call.cmd[k] = argument

\* C15: the returned list holds a fix-all action exactly when a finding of
\* the fresh check pass carries a fix; it is then the only one and the last
\* action of the list, and its single edit replaces (0,0)-(number of
\* document lines, 0) with the output of the fix run.  The tool runs in fix
\* mode only in that case, once, after the check pass.
C15_FixAllAction ==
    /\ Returned =>
          /\ (FixAlls # {}) <=> (FreshWithFix # {})
          /\ FixAlls # {} =>
                /\ FixAlls = {Len(response.result)}
                /\ response.result[Len(response.result)].edit =
                      <<[range |-> [start |-> [line |-> 0, character |-> 0],
                                    end |-> [line |-> Len(document.lines),
                                             character |-> 0]],
                         new_text |-> request.fix_proc.stdout.text]>>
                /\ response.result[Len(response.result)].diagnostics = <<>>
          /\ Len(response.calls) = IF FreshWithFix # {} THEN 2 ELSE 1
    /\ response.op = "code_actions" =>
          \A k \in DOMAIN response.calls :
             /\ HasArgument(response.calls[k], "--fix") =>
                   k = 2 /\ FreshWithFix # {}
             /\ k = 1 => HasArgument(response.calls[k], "--no-fix")

\* a context diagnostic and a fresh finding with a fix: the fix-all action
\* comes last, after the actions of the context, with the fixed text
C15_Witness ==
    /\ Returned
    /\ request.context # <<>>
    /\ FreshWithFix # {}
    /\ Len(response.result) >= 3
    /\ FixAlls = {Len(response.result)}
    /\ response.result[Len(response.result)].edit[1].new_text = <<LineX>>

(***************************************************************************)
(* Settings per request: C16                                               *)
(***************************************************************************)
Delegated == NearestPyproject = "ruff_table" \/ AnyRuffToml

\* C16: the settings a lint, format or code-action request uses are those
\* derived from the host configuration and the project files as they are at
\* the time of the request, whatever earlier requests resolved: the rule
\* selection fields are null under a project declaration and the host's
\* otherwise, the other fields are the host's, and the command of the
\* request carries --select exactly when the host's select is in force.
C16_NoSettingsCache ==
    response.op \in {"lint", "format", "code_actions"} =>
       /\ \A f \in {"config", "line_length", "exclude", "select", "ignore",
                    "per_file_ignores"} :
             response.settings[f] =
                IF Delegated THEN None ELSE config[to_camel_case[f]]
       /\ \A f \in {"enabled", "executable", "unsafe_fixes", "extend_ignore",
                    "extend_select", "format", "severities"} :
             response.settings[f] = config[to_camel_case[f]]
       /\ \A k \in DOMAIN response.calls :
             HasArgument(response.calls[k], "--select=F")
                <=> (~Delegated /\ config["select"] = <<<<"F">>>>)

\* a lint request after the host set select and a ruff.toml appeared: the
\* command no longer carries the host's selection
C16_Witness ==
    /\ response.op = "lint"
    /\ config["select"] = <<<<"F">>>>
    /\ files["root"].ruff_toml
    /\ response.settings.select = None
    /\ ~HasArgument(response.calls[1], "--select=F")

(***************************************************************************)
(* Tool output: C17                                                        *)
(***************************************************************************)
\* C17: when the standard output of a check run is not a well-formed JSON
\* array of findings (empty, no JSON, or JSON of another shape),
\* run_ruff_check returns the empty list without raising and lint returns
\* no diagnostics.
C17_MalformedOutput ==
    (/\ response.op = "lint"
     /\ request.proc.spawn
     /\ request.proc.stdout.kind \in {"empty", "invalid", "other"}) =>
       /\ response.raised = "none"
       /\ response.result = <<>>

(***************************************************************************)
(* The command: C18, C19, C20                                              *)
(***************************************************************************)
\* ",".join of the lists the options hold, written out
JoinedText(list) ==
    CASE list = <<>> -> ""
      [] list = <<"build">> -> "build"
      [] list = <<"F">> -> "F"
      [] list = <<"E", "F">> -> "E,F"
      [] list = <<"D", "F">> -> "D,F"
      [] list = <<"E501">> -> "E501"
      [] list = <<"E">> -> "E"
      [] list = <<"F401">> -> "F401"
      [] list = <<"W291">> -> "W291"
      [] list = <<"E501", "E402">> -> "E501,E402"
      [] list = <<"I001">> -> "I001"

OptionLists ==
    {<<>>, <<"build">>, <<"F">>, <<"E", "F">>, <<"D", "F">>, <<"E501">>, <<"E">>,
     <<"F401">>, <<"W291">>, <<"E501", "E402">>, <<"I001">>}

\* every argument that starts with the prefix of a list option
ListFlags(prefix) == {prefix \o JoinedText(list) : list \in OptionLists}

Count(cmd, flags) == Cardinality({k \in DOMAIN cmd : cmd[k] \in flags})

\* the runs of the request: the first is the check run of lint and of code
\* actions or the format run; the second is the fix run of code actions
IsRequest == response.op \in {"lint", "format", "code_actions"}
FixMode(k) == response.op = "format" \/ k = 2

FixableFlags ==
    {"--fixable=", "--fixable=I", "--fixable=I,", "--fixable=I001",
     "--fixable=E,F", "--fixable=I,I001", "--fixable=I,E,F"}

StdinFlags ==
    {"--stdin-filename=", "--stdin-filename=/", "--stdin-filename=/root/pkg/mod.py"}

\* C18: the command is the configured executable, or the host runtime with
\* -m ruff, followed by arguments that hold --quiet, --exit-zero,
\* --output-format=json and --force-exclude, exactly one of --fix (fix and
\* format runs) and --no-fix (check runs), --stdin-filename=<path> exactly
\* when the document has a path, the caller's extra arguments right before
\* the terminator, and "--", "-" at the end; with delegated settings and no
\* host options the command is that fixed list and nothing else.
C18_CommandVector ==
    IsRequest =>
       \A k \in DOMAIN response.calls :
          LET cmd == response.calls[k].cmd
              executable == response.settings.executable
              n == IF executable = None THEN 3 ELSE 1
              args == SubSeq(cmd, n + 1, Len(cmd))
              mode == IF FixMode(k) THEN "--fix" ELSE "--no-fix"
              extra == IF response.op = "format" THEN 1 ELSE 0
          IN  /\ executable # None => cmd[1] = executable[1]
              /\ executable = None => SubSeq(cmd, 1, 3) = <<"python", "-m", "ruff">>
              /\ \A flag \in {"--quiet", "--exit-zero", "--output-format=json",
                              "--force-exclude"} : Count(args, {flag}) = 1
              /\ Count(args, {"--fix", "--no-fix"}) = 1
              /\ Count(args, {mode}) = 1
              /\ document.path # <<>> =>
                    /\ Count(args, {"--stdin-filename=/root/pkg/mod.py"}) = 1
                    /\ Count(args, StdinFlags) = 1
              /\ document.path = <<>> => Count(args, StdinFlags) = 0
              /\ SubSeq(args, Len(args) - 1, Len(args)) = <<"--", "-">>
              /\ extra = 1 => args[Len(args) - 2] \in FixableFlags
              /\ (Delegated /\ config = DefaultConfig) =>
                    args = <<"--quiet", "--exit-zero", "--output-format=json",
                             mode, "--force-exclude">>
                           \o (IF document.path # <<>>
                               THEN <<"--stdin-filename=/root/pkg/mod.py">>
                               ELSE <<>>)
                           \o (IF extra = 1 THEN <<"--fixable=I">> ELSE <<>>)
                           \o <<"--", "-">>

\* a format run of an unsaved document with a configured executable
C18_Witness ==
    /\ response.op = "format"
    /\ document.path = <<>>
    /\ response.calls[1].cmd =
          <<"/tmp/ruff", "--quiet", "--exit-zero", "--output-format=json",
            "--fix", "--force-exclude", "--fixable=I", "--", "-">>

\* the entries of per_file_ignores whose pattern matches the document path
MatchingIgnores(settings) ==
    IF settings.per_file_ignores = None \/ document.path = <<>> THEN {}
    ELSE {i \in DOMAIN settings.per_file_ignores[1] :
             settings.per_file_ignores[1][i][1] \in {<<"mod.py">>, <<"pkg", "mod.py">>}}

\* the flags of the options, given which values count as set
OptionFlags(cmd, settings, IsSet(_), IsSetInt(_)) ==
    /\ Count(cmd, {"--config=", "--config=/tmp/pyproject.toml"}) =
          IF IsSet(settings.config) THEN 1 ELSE 0
    /\ IsSet(settings.config) =>
          Count(cmd, {"--config=" \o settings.config[1]}) = 1
    /\ Count(cmd, {"--line-length=", "--line-length=0", "--line-length=88"}) =
          IF IsSetInt(settings.line_length) THEN 1 ELSE 0
    /\ IsSetInt(settings.line_length) =>
          Count(cmd, {"--line-length=" \o ToString(settings.line_length[1])}) = 1
    /\ \A o \in {<<"exclude", "--exclude=">>, <<"select", "--select=">>,
                 <<"extend_select", "--extend-select=">>,
                 <<"extend_ignore", "--extend-ignore=">>} :
          /\ Count(cmd, ListFlags(o[2])) = IF IsSet(settings[o[1]]) THEN 1 ELSE 0
          /\ IsSet(settings[o[1]]) =>
                Count(cmd, {o[2] \o JoinedText(settings[o[1]][1])}) = 1
    /\ Count(cmd, ListFlags("--ignore=")) =
          (IF IsSet(settings.ignore) THEN 1 ELSE 0)
          + Cardinality(MatchingIgnores(settings))
    /\ IsSet(settings.ignore) =>
          Count(cmd, {"--ignore=" \o JoinedText(settings.ignore[1])}) >= 1
    /\ \A i \in MatchingIgnores(settings) :
          Count(cmd, {"--ignore=" \o JoinedText(settings.per_file_ignores[1][i][2])}) >= 1
    /\ Count(cmd, {"--unsafe-fixes"}) = IF settings.unsafe_fixes THEN 1 ELSE 0

NonNull(o) == o # <<>>
NonEmpty(o) == o # <<>> /\ Len(o[1]) > 0
NonZero(o) == o # <<>> /\ o[1] # 0

\* C19 as stated: the arguments hold one flag for each non-null field among
\* config, line_length, exclude, select, extend_select, ignore and
\* extend_ignore, --unsafe-fixes exactly when unsafe_fixes is true, one
\* --ignore flag for every per_file_ignores entry that matches the document
\* path, and no flag for a null field.
C19_SettingsToFlags_AsStated ==
    IsRequest =>
       \A k \in DOMAIN response.calls :
          OptionFlags(response.calls[k].cmd, response.settings, NonNull, NonNull)

\* C19, amended: the arguments hold one flag for each field among config,
\* line_length, exclude, select, extend_select, ignore and extend_ignore
\* that is set to a non-empty string, a non-zero number or a non-empty list,
\* and no flag for a field that is null, empty or zero; --unsafe-fixes
\* exactly when unsafe_fixes is true; one --ignore flag for every entry of
\* a non-empty per_file_ignores whose pattern matches the document path.
C19_SettingsToFlags ==
    IsRequest =>
       \A k \in DOMAIN response.calls :
          OptionFlags(response.calls[k].cmd, response.settings, NonEmpty, NonZero)

\* a check run where select is the empty list and ignore is set: the
\* command carries the --ignore flag and no --select flag
C19_Witness ==
    /\ response.op = "lint"
    /\ response.settings.select = <<<<>>>>
    /\ response.settings.ignore = <<<<"E501">>>>
    /\ Count(response.calls[1].cmd, ListFlags("--select=")) = 0
    /\ Count(response.calls[1].cmd, {"--ignore=E501"}) = 1

\* C20: a format run is a fix run with exactly one --fixable argument, "I"
\* followed by the entries of settings.format in their order, joined by
\* commas (just "I" when format is null or empty); check runs and the fix
\* run of fix-all carry no --fixable argument.
C20_FormatFixable ==
    IsRequest =>
       \A k \in DOMAIN response.calls :
          LET cmd == response.calls[k].cmd
              format == response.settings.format
          IN  IF response.op = "format"
              THEN /\ Count(cmd, {"--fix"}) = 1
                   /\ Count(cmd, FixableFlags) = 1
                   /\ Count(cmd, {IF format = None \/ format[1] = <<>>
                                  THEN "--fixable=I"
                                  ELSE "--fixable=I," \o JoinedText(format[1])}) = 1
              ELSE Count(cmd, FixableFlags) = 0

\* a format run under format = ["E", "F"]
C20_Witness ==
    /\ response.op = "format"
    /\ response.settings.format = <<<<"E", "F">>>>
    /\ Count(response.calls[1].cmd, {"--fixable=I,E,F"}) = 1

(***************************************************************************)
(* Disable actions of the context diagnostics: C21                         *)
(***************************************************************************)
\* an exception of the tool invocation or of reading its output left the hook
ToolFailure ==
    response.raised \in {"UnboundLocalError", "OSError", "StructureError"}

\* the returned list begins with one block per context diagnostic, in the
\* order of the context: the disable action made from the diagnostic, then
\* at most one fix action made from it; every fix action of a context
\* diagnostic comes after a disable action made from that diagnostic
DisableBlocks ==
    \E pos \in [DOMAIN request.context -> Disables] :
       /\ request.context # <<>> => pos[1] = 1
       /\ \A i \in DOMAIN request.context :
             /\ response.result[pos[i]].diagnostics = <<request.context[i]>>
             /\ i < Len(request.context) =>
                   \/ pos[i + 1] = pos[i] + 1
                   \/ /\ pos[i + 1] = pos[i] + 2
                      /\ pos[i] + 1 \in FixActions(i)
             /\ \A j \in FixActions(i) :
                   \E k \in DOMAIN request.context :
                      request.context[k] = request.context[i] /\ pos[k] < j

\* the start line of some context diagnostic is no line of the document
ContextOutsideDocument ==
    \E i \in DOMAIN request.context :
       request.context[i].range.start.line >= Len(document.lines)

\* C21: every code-action request whose tool runs did not fail returns a
\* list that holds, for each context diagnostic and in the order given,
\* exactly one disable action made from it, placed before the fix action of
\* the same diagnostic, whether the diagnostic carries a fix or not and also
\* when its fix is skipped by safety gating.
C21_DisablePerContextDiagnostic ==
    (response.op = "code_actions" /\ ~ToolFailure) =>
       /\ response.raised = "none"
       /\ DisableBlocks

\* what holds of the requests the hook answers: a request that returns a
\* list returns the blocks, and a request that raises without a tool failure
\* has a context diagnostic outside the document
C21_DisableWhenInsideDocument ==
    response.op = "code_actions" =>
       /\ Returned => DisableBlocks
       /\ (~Returned /\ ~ToolFailure) =>
             /\ response.raised = "IndexError"
             /\ ContextOutsideDocument
             /\ response.result = <<>>

(***************************************************************************)
(* The fix payload from lint to code actions: C22                          *)
(***************************************************************************)
\* the request hands back diagnostics of the lint pass before it
HandedBack == Returned /\ "findings" \in DOMAIN request

\* the fix of the finding passes the safety gate
PassesGate(fix) ==
    fix[1].applicability = "safe" \/ response.settings.unsafe_fixes

\* C22: when diagnostics returned by lint are handed back unchanged as the
\* context, every finding with a fix that passes safety gating gets exactly
\* one fix action made from its diagnostic (organize-imports for code I001,
\* a quick-fix otherwise) whose text edits are the edits of the finding's
\* fix, one for one and in order, each with the edit's content as new text,
\* whatever the fresh check pass reports; a diagnostic without a payload
\* gets no fix action.
C22_FixPayloadRoundTrip ==
    HandedBack =>
       \A i \in DOMAIN request.findings :
          LET finding == request.findings[i]
          IN  /\ (finding.fix # None /\ PassesGate(finding.fix)) =>
                    /\ Cardinality(FixActions(i)) = 1
                    /\ \A j \in FixActions(i) :
                          LET edits == finding.fix[1].edits
                              changes == response.result[j].edit
                          IN  /\ IsOrganize(response.result[j])
                                    <=> finding.code = I001
                              /\ Len(changes) = Len(edits)
                              /\ \A k \in DOMAIN edits :
                                    /\ changes[k].new_text = edits[k].content
                                    /\ changes[k].range.start.line =
                                          edits[k].location.row - 1
                                    /\ changes[k].range.end.line =
                                          edits[k].end_location.row - 1
              /\ finding.fix = None =>
                    /\ request.published[i].data = None
                    /\ FixActions(i) = {}

\* lint returned a finding without a fix and one with an unsafe fix of two
\* edits; both diagnostics came back, the payload as a dict, and with unsafe
\* fixes allowed the second got its quick-fix of two text edits while the
\* fresh pass reported no fix
C22_Witness ==
    /\ HandedBack
    /\ response.settings.unsafe_fixes
    /\ Len(request.findings) = 2
    /\ request.findings[1].fix = None
    /\ request.findings[2].fix # None
    /\ request.findings[2].fix[1].applicability = "unsafe"
    /\ request.findings[2].code = F401
    /\ request.published[2].data # None
    /\ request.published[2].data[1][1][1] = "edits"
    /\ FreshWithFix = {}
    /\ \E j \in FixActions(2) :
          /\ IsQuickFix(response.result[j])
          /\ Len(response.result[j].edit) = 2
          /\ response.result[j].edit[1].new_text = <<LineX>>
          /\ response.result[j].edit[2].new_text = <<>>

(***************************************************************************)
(* Format chaining: C23                                                    *)
(***************************************************************************)
\* the formatters before this one left a result that is not empty
UpstreamExists == request.upstream # None /\ request.upstream[1] # <<>>

\* C23: a format request whose tool run returns feeds the tool, once, the
\* new text of the first edit of the earlier formatters' result when there
\* is one and the document source otherwise; when the output equals what
\* was fed the outcome is left as it was, an upstream result included; the
\* outcome is replaced only when the output differs from what was fed, and
\* then by a single edit over the whole document that carries the output.
C23_FormatChaining ==
    (response.op = "format" /\ response.raised = "none") =>
       LET fed == response.calls[1].stdin
           out == request.proc.stdout.text
       IN  /\ Len(response.calls) = 1
           /\ fed = IF UpstreamExists THEN request.upstream[1][1].new_text
                    ELSE document.lines
           /\ out = fed => response.result = request.upstream
           /\ response.result # request.upstream =>
                 /\ out # fed
                 /\ response.forced
                 /\ Len(response.result[1]) = 1
                 /\ response.result[1][1].new_text = out
                 /\ response.result[1][1].range.start =
                       [line |-> 0, character |-> 0]
                 /\ response.result[1][1].range.end =
                       [line |-> Len(document.lines), character |-> 0]

\* earlier formatters left two edits; the tool was fed the new text of the
\* first, which is not the document source, gave it back as it was, and the
\* two edits are still the outcome
C23_Witness ==
    /\ response.op = "format"
    /\ response.raised = "none"
    /\ UpstreamExists
    /\ Len(request.upstream[1]) = 2
    /\ response.calls[1].stdin = request.upstream[1][1].new_text
    /\ response.calls[1].stdin # document.lines
    /\ request.proc.stdout.text = request.upstream[1][1].new_text
    /\ response.result = request.upstream
====
